---- MODULE Spec2Model ----
(***************************************************************************)
(* Model of vectorize-data/src/index.js: the vocabulary build              *)
(* (tokenize, buildVocabularyAndIDF) and the batched upload pipeline of    *)
(* main (dense loop, sparse loop, post-upload steps).                      *)
(*                                                                         *)
(* Two specifications share the variables:                                 *)
(*   Spec       the run of main over a record sequence of bounded length   *)
(*   VocabSpec  buildVocabularyAndIDF over a bounded corpus                *)
(***************************************************************************)
EXTENDS Integers, Sequences, FiniteSets, TLC

VARIABLES
  records,        \* main: const records = loadAllNbaData()
  sparseVectors,  \* main: const sparseVectors = records.map(...)
  pc,             \* position of main (the await it is suspended at)
  i,              \* loop variable of the current upload loop
  batch,          \* const batch of the current loop iteration
  inFlight,       \* upsert calls issued and not yet settled
  log,            \* history: every call, result, timer and report, in order
  bstate,         \* history: state of every batch that left Pending
  failedAt,       \* which call's error propagated out of main ("none" if none)
  documents,      \* buildVocabularyAndIDF: the documents argument
  docPos,         \* buildVocabularyAndIDF: documents already scanned
  vocabulary,     \* buildVocabularyAndIDF: const vocabulary = {}
  docFreq,        \* buildVocabularyAndIDF: const docFreq = {}
  vocabIndex,     \* buildVocabularyAndIDF: let vocabIndex = 0
  idf,            \* buildVocabularyAndIDF: const idf = {}
  vpc,            \* position of buildVocabularyAndIDF and of the encodings after it
  encText,        \* generateSparseVector: the text argument of the last call
  sparseVector,   \* generateSparseVector: the vector the last call returned
  source,         \* the data files loadAllNbaData reads
  run,            \* which run of the program over the same files
  lpc,            \* position of loadAllNbaData
  lpos,           \* index of the next element of the list being walked
  loaded,         \* loadAllNbaData: const records = []
  prevLoaded,     \* the records the run before returned
  indexIds,       \* ids stored in the index
  firstIndexIds,  \* ids stored in the index after the first run
  endpoint,       \* fetchJson: the endpoint argument
  fetchAttempt,   \* fetchJson: the attempt argument of the running call
  fpc,            \* position of fetchJson
  lastStatus,     \* fetchJson: response.status of the last response
  thrown,         \* fetchJson: the error thrown to the caller
  flog            \* history of requests, responses and waits of the call

pipeVars  == <<records, sparseVectors, pc, i, batch, inFlight, log, bstate, failedAt>>
vocabVars == <<documents, docPos, vocabulary, docFreq, vocabIndex, idf, vpc,
               encText, sparseVector>>
loadVars  == <<source, run, lpc, lpos, loaded, prevLoaded, indexIds, firstIndexIds>>
fetchVars == <<endpoint, fetchAttempt, fpc, lastStatus, thrown, flog>>
vars      == <<records, sparseVectors, pc, i, batch, inFlight, log, bstate, failedAt,
               documents, docPos, vocabulary, docFreq, vocabIndex, idf, vpc,
               encText, sparseVector,
               source, run, lpc, lpos, loaded, prevLoaded, indexIds, firstIndexIds,
               endpoint, fetchAttempt, fpc, lastStatus, thrown, flog>>

(***************************************************************************)
(* Bounds                                                                  *)
(***************************************************************************)
MaxRecords == 250
MaxDocs    == 2
MaxTextLen == 3

(***************************************************************************)
(* Program constants                                                       *)
(***************************************************************************)
BATCH_SIZE        == 96
SPARSE_BATCH_SIZE == 100
DELAY_MS          == 3000
\* mutant: the retry waits only the inter-batch delay
CooldownAsDelay   == DELAY_MS
COOLDOWN_MS       == 60000
SETTLE_MS         == 15000

Min(a, b) == IF a < b THEN a ELSE b

\* Array.prototype.slice(from, to) for 0 <= from <= to
\* mutant: the slice end is taken as inclusive
SliceInclusive(s, from, to) == SubSeq(s, from + 1, Min(to + 1, Len(s)))

Slice(s, from, to) == SubSeq(s, from + 1, Min(to, Len(s)))

(***************************************************************************)
(* Errors an index call can reject with: the HTTP status and whether the   *)
(* message includes "Dense vectors must contain at least one non-zero      *)
(* value".                                                                 *)
(***************************************************************************)
RateLimited   == [status |-> 429, denseMsg |-> FALSE]
ServerError   == [status |-> 500, denseMsg |-> FALSE]
Misconfigured == [status |-> 400, denseMsg |-> TRUE]
BadRequest    == [status |-> 400, denseMsg |-> FALSE]

Errors == {RateLimited, ServerError, Misconfigured, BadRequest}

NoError == [status |-> 0, denseMsg |-> FALSE]

\* mutant: a 5xx status is taken for a rate limit as well
IsRateLimitOrServerError(err) == err.status = 429 \/ err.status >= 500

IsRateLimit(err)     == err.status = 429
IsMisconfigured(err) == err.denseMsg

(***************************************************************************)
(* History events                                                          *)
(***************************************************************************)
Event(kind, target, idx, attempt, b, err, ms) ==
  [kind |-> kind, target |-> target, idx |-> idx, attempt |-> attempt,
   batch |-> b, err |-> err, ms |-> ms]

SubmitEv(target, idx, attempt, b) == Event("submit", target, idx, attempt, b, NoError, 0)
OkEv(target, idx, attempt)        == Event("ok", target, idx, attempt, <<>>, NoError, 0)
ErrEv(target, idx, attempt, err)  == Event("err", target, idx, attempt, <<>>, err, 0)
SleepEv(target, idx, ms)          == Event("sleep", target, idx, 0, <<>>, NoError, ms)
ReportEv(target)                  == Event("report", target, 0, 0, <<>>, NoError, 0)
\* buildVocabularyAndIDF(records) has returned
BuildEv                           == Event("build", "all", 0, 0, <<>>, NoError, 0)
\* generateSparseVector(text, vocabulary, idf) is called, for the records or the query
EncodeEv(target)                  == Event("encode", target, 0, 0, <<>>, NoError, 0)

Call(target, idx, attempt, b) == [target |-> target, idx |-> idx, attempt |-> attempt, batch |-> b]

BatchState(target, idx) ==
  IF <<target, idx>> \in DOMAIN bstate THEN bstate[<<target, idx>>] ELSE "Pending"

\* state of a batch whose attempt was rejected, from where main goes next
FailedBatchState(label) ==
  IF label \in {"dense_cooldown", "sparse_cooldown"} THEN "Retrying" ELSE "Aborted"

SetBatchState(target, idx, st) ==
  [k \in DOMAIN bstate \cup {<<target, idx>>} |->
     IF k = <<target, idx>> THEN st ELSE bstate[k]]

(***************************************************************************)
(* main: dense upload loop                                                 *)
(***************************************************************************)
\* mutant: an error that is not a 429 is swallowed and the loop goes on
DenseCatchSwallow(err) == IF IsRateLimit(err) THEN "dense_cooldown" ELSE "dense_loop"

\* mutant: the dense catch leaves the loop as the sparse catch does and main
\* goes on with the sparse phase
DenseCatchBreak(err) == IF IsRateLimit(err) THEN "dense_cooldown" ELSE "sparse_map"

\* catch of the dense loop: where main goes when the first attempt rejects
DenseCatch(err) == IF IsRateLimit(err) THEN "dense_cooldown" ELSE "failed"

\* mutant: a failed retry is swallowed and the loop goes on
DenseRetryCatchSwallow(err) == "dense_loop"

\* mutant: a retry rejected with a 429 waits and retries again
DenseRetryCatchAgain(err) == IF IsRateLimit(err) THEN "dense_cooldown" ELSE "failed"

\* an error thrown inside the catch block leaves the loop and reaches the outer catch
DenseRetryCatch(err) == "failed"

\* mutant: the delay test uses <= and also waits after the last batch
DenseAfterOkLe(idx, n) == IF idx + BATCH_SIZE <= n THEN "dense_delay" ELSE "dense_loop"

\* if (i + BATCH_SIZE < records.length) await delay
DenseAfterOk(idx, n) == IF idx + BATCH_SIZE < n THEN "dense_delay" ELSE "dense_loop"

\* the retry succeeded: the catch block ends and the loop goes on to i += BATCH_SIZE
DenseAfterRetryOk(idx, n) == "dense_loop"

\* mutant: step 1 is left out and main goes straight to the uploads
AfterLoadSkipsBuild == "dense_loop"

\* after const records = loadAllNbaData() comes step 1, the vocabulary build
AfterLoad == "build"

Start ==
  /\ pc = "start"
  /\ pc' = AfterLoad
  /\ UNCHANGED <<records, sparseVectors, i, batch, inFlight, log, bstate, failedAt>>
  /\ UNCHANGED <<vocabVars, loadVars, fetchVars>>

\* const { vocabulary, idf } = buildVocabularyAndIDF(records): synchronous, it
\* returns with both tables complete; then the dense loop starts at i = 0
BuildVocabulary ==
  /\ pc = "build"
  /\ log' = Append(log, BuildEv)
  /\ i' = 0
  /\ pc' = "dense_loop"
  /\ UNCHANGED <<records, sparseVectors, batch, inFlight, bstate, failedAt>>
  /\ UNCHANGED <<vocabVars, loadVars, fetchVars>>

DenseSubmit ==
  /\ pc = "dense_loop"
  /\ i < Len(records)
  /\ LET b == Slice(records, i, i + BATCH_SIZE) IN
       /\ batch' = b
       /\ inFlight' = inFlight \cup {Call("dense", i, 1, b)}
       /\ log' = Append(log, SubmitEv("dense", i, 1, b))
  /\ bstate' = SetBatchState("dense", i, "InFlight")
  /\ pc' = "dense_upsert"
  /\ UNCHANGED <<records, sparseVectors, i, failedAt>>
  /\ UNCHANGED <<vocabVars, loadVars, fetchVars>>

DenseLoopExit ==
  /\ pc = "dense_loop"
  /\ ~(i < Len(records))
  /\ log' = Append(log, ReportEv("dense"))
  /\ pc' = "sparse_map"
  /\ UNCHANGED <<records, sparseVectors, i, batch, inFlight, bstate, failedAt>>
  /\ UNCHANGED <<vocabVars, loadVars, fetchVars>>

DenseUpsertOk ==
  /\ pc = "dense_upsert"
  /\ inFlight' = inFlight \ {Call("dense", i, 1, batch)}
  /\ log' = Append(log, OkEv("dense", i, 1))
  /\ bstate' = SetBatchState("dense", i, "Done")
  /\ pc' = DenseAfterOk(i, Len(records))
  /\ i' = IF pc' = "dense_loop" THEN i + BATCH_SIZE ELSE i
  /\ UNCHANGED <<records, sparseVectors, batch, failedAt>>
  /\ UNCHANGED <<vocabVars, loadVars, fetchVars>>

DenseDelay ==
  /\ pc = "dense_delay"
  /\ log' = Append(log, SleepEv("dense", i, DELAY_MS))
  /\ i' = i + BATCH_SIZE
  /\ pc' = "dense_loop"
  /\ UNCHANGED <<records, sparseVectors, batch, inFlight, bstate, failedAt>>
  /\ UNCHANGED <<vocabVars, loadVars, fetchVars>>

DenseUpsertError(err) ==
  /\ pc = "dense_upsert"
  /\ inFlight' = inFlight \ {Call("dense", i, 1, batch)}
  /\ log' = Append(log, ErrEv("dense", i, 1, err))
  /\ pc' = DenseCatch(err)
  /\ bstate' = SetBatchState("dense", i, FailedBatchState(pc'))
  /\ failedAt' = IF pc' = "failed" THEN "dense_upsert" ELSE failedAt
  /\ i' = IF pc' = "dense_loop" THEN i + BATCH_SIZE ELSE i
  /\ UNCHANGED <<records, sparseVectors, batch>>
  /\ UNCHANGED <<vocabVars, loadVars, fetchVars>>

DenseRetry ==
  /\ pc = "dense_cooldown"
  /\ inFlight' = inFlight \cup {Call("dense", i, 2, batch)}
  /\ log' = log \o <<SleepEv("dense", i, COOLDOWN_MS), SubmitEv("dense", i, 2, batch)>>
  /\ bstate' = SetBatchState("dense", i, "InFlight")
  /\ pc' = "dense_retry"
  /\ UNCHANGED <<records, sparseVectors, i, batch, failedAt>>
  /\ UNCHANGED <<vocabVars, loadVars, fetchVars>>

DenseRetryOk ==
  /\ pc = "dense_retry"
  /\ inFlight' = inFlight \ {Call("dense", i, 2, batch)}
  /\ log' = Append(log, OkEv("dense", i, 2))
  /\ bstate' = SetBatchState("dense", i, "Done")
  /\ pc' = DenseAfterRetryOk(i, Len(records))
  /\ i' = IF pc' = "dense_loop" THEN i + BATCH_SIZE ELSE i
  /\ UNCHANGED <<records, sparseVectors, batch, failedAt>>
  /\ UNCHANGED <<vocabVars, loadVars, fetchVars>>

DenseRetryError(err) ==
  /\ pc = "dense_retry"
  /\ inFlight' = inFlight \ {Call("dense", i, 2, batch)}
  /\ log' = Append(log, ErrEv("dense", i, 2, err))
  /\ pc' = DenseRetryCatch(err)
  /\ bstate' = SetBatchState("dense", i, FailedBatchState(pc'))
  /\ failedAt' = IF pc' = "failed" THEN "dense_retry" ELSE failedAt
  /\ i' = IF pc' = "dense_loop" THEN i + BATCH_SIZE ELSE i
  /\ UNCHANGED <<records, sparseVectors, batch>>
  /\ UNCHANGED <<vocabVars, loadVars, fetchVars>>

(***************************************************************************)
(* main: sparse upload loop                                                *)
(***************************************************************************)
\* id: record._id + "_sparse"
SparseRecord(r) == <<r, "_sparse">>

\* mutant: the sparse catch rethrows what is not a 429, as the dense catch does
SparseCatchThrow(err) == IF IsRateLimit(err) THEN "sparse_cooldown" ELSE "failed"

\* catch of the sparse loop: 429 retries; the misconfiguration message and
\* every other error both break out of the loop
SparseCatch(err) ==
  IF IsRateLimit(err) THEN "sparse_cooldown"
  ELSE IF IsMisconfigured(err) THEN "sparse_after"
  ELSE "sparse_after"

\* mutant: the retry is covered by the misconfiguration branch too
SparseRetryCatchBreak(err) == IF IsMisconfigured(err) THEN "sparse_after" ELSE "failed"

\* mutant: a second 429 starts another cooldown and retry
SparseRetryCatchAgain(err) == IF IsRateLimit(err) THEN "sparse_cooldown" ELSE "failed"

\* an error thrown inside the catch block leaves the loop and reaches the outer catch
SparseRetryCatch(err) == "failed"

\* if (i + SPARSE_BATCH_SIZE < sparseVectors.length) await delay
SparseAfterOk(idx, n) == IF idx + SPARSE_BATCH_SIZE < n THEN "sparse_delay" ELSE "sparse_loop"

\* the retry succeeded: the catch block ends and the loop goes on to i += SPARSE_BATCH_SIZE
SparseAfterRetryOk(idx, n) == "sparse_loop"

SparseMap ==
  /\ pc = "sparse_map"
  /\ sparseVectors' = [p \in 1..Len(records) |-> SparseRecord(records[p])]
  /\ log' = IF Len(records) > 0 THEN Append(log, EncodeEv("records")) ELSE log
  /\ i' = 0
  /\ pc' = "sparse_loop"
  /\ UNCHANGED <<records, batch, inFlight, bstate, failedAt>>
  /\ UNCHANGED <<vocabVars, loadVars, fetchVars>>

SparseSubmit ==
  /\ pc = "sparse_loop"
  /\ i < Len(sparseVectors)
  /\ LET b == Slice(sparseVectors, i, i + SPARSE_BATCH_SIZE) IN
       /\ batch' = b
       /\ inFlight' = inFlight \cup {Call("sparse", i, 1, b)}
       /\ log' = Append(log, SubmitEv("sparse", i, 1, b))
  /\ bstate' = SetBatchState("sparse", i, "InFlight")
  /\ pc' = "sparse_upsert"
  /\ UNCHANGED <<records, sparseVectors, i, failedAt>>
  /\ UNCHANGED <<vocabVars, loadVars, fetchVars>>

SparseLoopExit ==
  /\ pc = "sparse_loop"
  /\ ~(i < Len(sparseVectors))
  /\ pc' = "sparse_after"
  /\ UNCHANGED <<records, sparseVectors, i, batch, inFlight, log, bstate, failedAt>>
  /\ UNCHANGED <<vocabVars, loadVars, fetchVars>>

SparseUpsertOk ==
  /\ pc = "sparse_upsert"
  /\ inFlight' = inFlight \ {Call("sparse", i, 1, batch)}
  /\ log' = Append(log, OkEv("sparse", i, 1))
  /\ bstate' = SetBatchState("sparse", i, "Done")
  /\ pc' = SparseAfterOk(i, Len(sparseVectors))
  /\ i' = IF pc' = "sparse_loop" THEN i + SPARSE_BATCH_SIZE ELSE i
  /\ UNCHANGED <<records, sparseVectors, batch, failedAt>>
  /\ UNCHANGED <<vocabVars, loadVars, fetchVars>>

SparseDelay ==
  /\ pc = "sparse_delay"
  /\ log' = Append(log, SleepEv("sparse", i, DELAY_MS))
  /\ i' = i + SPARSE_BATCH_SIZE
  /\ pc' = "sparse_loop"
  /\ UNCHANGED <<records, sparseVectors, batch, inFlight, bstate, failedAt>>
  /\ UNCHANGED <<vocabVars, loadVars, fetchVars>>

SparseUpsertError(err) ==
  /\ pc = "sparse_upsert"
  /\ inFlight' = inFlight \ {Call("sparse", i, 1, batch)}
  /\ log' = Append(log, ErrEv("sparse", i, 1, err))
  /\ pc' = SparseCatch(err)
  /\ bstate' = SetBatchState("sparse", i, FailedBatchState(pc'))
  /\ failedAt' = IF pc' = "failed" THEN "sparse_upsert" ELSE failedAt
  /\ i' = IF pc' = "sparse_loop" THEN i + SPARSE_BATCH_SIZE ELSE i
  /\ UNCHANGED <<records, sparseVectors, batch>>
  /\ UNCHANGED <<vocabVars, loadVars, fetchVars>>

SparseRetry ==
  /\ pc = "sparse_cooldown"
  /\ inFlight' = inFlight \cup {Call("sparse", i, 2, batch)}
  /\ log' = log \o <<SleepEv("sparse", i, COOLDOWN_MS), SubmitEv("sparse", i, 2, batch)>>
  /\ bstate' = SetBatchState("sparse", i, "InFlight")
  /\ pc' = "sparse_retry"
  /\ UNCHANGED <<records, sparseVectors, i, batch, failedAt>>
  /\ UNCHANGED <<vocabVars, loadVars, fetchVars>>

SparseRetryOk ==
  /\ pc = "sparse_retry"
  /\ inFlight' = inFlight \ {Call("sparse", i, 2, batch)}
  /\ log' = Append(log, OkEv("sparse", i, 2))
  /\ bstate' = SetBatchState("sparse", i, "Done")
  /\ pc' = SparseAfterRetryOk(i, Len(sparseVectors))
  /\ i' = IF pc' = "sparse_loop" THEN i + SPARSE_BATCH_SIZE ELSE i
  /\ UNCHANGED <<records, sparseVectors, batch, failedAt>>
  /\ UNCHANGED <<vocabVars, loadVars, fetchVars>>

SparseRetryError(err) ==
  /\ pc = "sparse_retry"
  /\ inFlight' = inFlight \ {Call("sparse", i, 2, batch)}
  /\ log' = Append(log, ErrEv("sparse", i, 2, err))
  /\ pc' = SparseRetryCatch(err)
  /\ bstate' = SetBatchState("sparse", i, FailedBatchState(pc'))
  /\ failedAt' = IF pc' = "failed" THEN "sparse_retry" ELSE failedAt
  /\ i' = IF pc' = "sparse_loop" THEN i + SPARSE_BATCH_SIZE ELSE i
  /\ UNCHANGED <<records, sparseVectors, batch>>
  /\ UNCHANGED <<vocabVars, loadVars, fetchVars>>

(***************************************************************************)
(* main: after the upload loops                                            *)
(***************************************************************************)
\* "Successfully upserted ... sparse vectors", then the 15 s indexing wait
SparseReport ==
  /\ pc = "sparse_after"
  /\ log' = log \o <<ReportEv("sparse"), SleepEv("all", 0, SETTLE_MS)>>
  /\ pc' = "stats"
  /\ UNCHANGED <<records, sparseVectors, i, batch, inFlight, bstate, failedAt>>
  /\ UNCHANGED <<vocabVars, loadVars, fetchVars>>

\* describeIndexStats of both indexes; a rejection reaches the outer catch
StatsOk ==
  /\ pc = "stats"
  /\ log' = Append(log, Event("stats", "all", 0, 0, <<>>, NoError, 0))
  /\ pc' = "dense_search"
  /\ UNCHANGED <<records, sparseVectors, i, batch, inFlight, bstate, failedAt>>
  /\ UNCHANGED <<vocabVars, loadVars, fetchVars>>

StatsError(err) ==
  /\ pc = "stats"
  /\ log' = Append(log, Event("stats", "all", 0, 0, <<>>, err, 0))
  /\ pc' = "failed"
  /\ failedAt' = "stats"
  /\ UNCHANGED <<records, sparseVectors, i, batch, inFlight, bstate>>
  /\ UNCHANGED <<vocabVars, loadVars, fetchVars>>

\* denseIndex.namespace("nba-data").searchRecords: not guarded by a try
DenseSearchOk ==
  /\ pc = "dense_search"
  /\ log' = Append(log, Event("search", "dense", 0, 0, <<>>, NoError, 0))
  /\ pc' = "sparse_search"
  /\ UNCHANGED <<records, sparseVectors, i, batch, inFlight, bstate, failedAt>>
  /\ UNCHANGED <<vocabVars, loadVars, fetchVars>>

DenseSearchError(err) ==
  /\ pc = "dense_search"
  /\ log' = Append(log, Event("search", "dense", 0, 0, <<>>, err, 0))
  /\ pc' = "failed"
  /\ failedAt' = "dense_search"
  /\ UNCHANGED <<records, sparseVectors, i, batch, inFlight, bstate>>
  /\ UNCHANGED <<vocabVars, loadVars, fetchVars>>

\* sparseIndex.query inside try/catch: a rejection is logged and swallowed;
\* then the completion summary
SparseSearch(res) ==
  /\ pc = "sparse_search"
  /\ log' = log \o <<EncodeEv("query"), Event("search", "sparse", 0, 0, <<>>, res, 0),
                      ReportEv("all")>>
  /\ pc' = "done"
  /\ UNCHANGED <<records, sparseVectors, i, batch, inFlight, bstate, failedAt>>
  /\ UNCHANGED <<vocabVars, loadVars, fetchVars>>

(***************************************************************************)
(* tokenize: a text is a sequence of one-character strings                 *)
(***************************************************************************)
\* String.prototype.toLowerCase on the characters of the model
ToLower(c) ==
  CASE c = "B" -> "b"
    [] c = "L" -> "l"
    [] OTHER -> c

\* \w and \s on lower-cased characters
WordChars == {"a", "b", "e", "k", "l", "n", "o", "r", "s", "t", "w"}
IsWord(c)  == c \in WordChars
IsSpace(c) == c = " "

\* .toLowerCase().replace(/[^\w\s]/g, " ")
Normalize(text) ==
  [k \in 1..Len(text) |->
     LET c == ToLower(text[k]) IN IF IsWord(c) \/ IsSpace(c) THEN c ELSE " "]

\* .split(/\s+/): the pieces between whitespace runs, empty end pieces included
RECURSIVE SplitFrom(_, _, _, _)
SplitFrom(s, k, cur, prevSpace) ==
  IF k > Len(s) THEN <<cur>>
  ELSE IF IsSpace(s[k])
       THEN IF prevSpace THEN SplitFrom(s, k + 1, cur, TRUE)
            ELSE <<cur>> \o SplitFrom(s, k + 1, <<>>, TRUE)
       ELSE SplitFrom(s, k + 1, Append(cur, s[k]), FALSE)

Split(s) == SplitFrom(s, 1, <<>>, FALSE)

\* mutant: one-character tokens are kept
LongTokenOrShort(t) == Len(t) >= 1

\* .filter((token) => token.length > 1)
LongToken(t) == Len(t) > 1

tokenize(text) == SelectSeq(Split(Normalize(text)), LongToken)

\* [...new Set(tokens)]: first occurrences, in insertion order
RECURSIVE Unique(_)
Unique(tokens) ==
  IF tokens = <<>> THEN <<>>
  ELSE LET init == Unique(SubSeq(tokens, 1, Len(tokens) - 1))
           last == tokens[Len(tokens)]
       IN IF \E k \in 1..Len(init) : init[k] = last THEN init ELSE Append(init, last)

(***************************************************************************)
(* buildVocabularyAndIDF                                                   *)
(***************************************************************************)
\* a JS object used as a map: a function on the keys set so far
Put(m, key, val) == [x \in DOMAIN m \cup {key} |-> IF x = key THEN val ELSE m[x]]

\* !vocabulary[token]: true for a missing key and for the stored value 0
NotVocabulary(voc, token) == token \notin DOMAIN voc \/ voc[token] = 0

\* docFreq[token] || 0
DocFreqOrZero(df, token) == IF token \in DOMAIN df THEN df[token] ELSE 0

\* mutant: the counter moves only when the term is a new key
AddTokenCountsKeys(st, token) ==
  LET fresh == NotVocabulary(st.vocabulary, token) IN
  [vocabulary |-> IF fresh THEN Put(st.vocabulary, token, st.vocabIndex) ELSE st.vocabulary,
   vocabIndex |-> IF token \notin DOMAIN st.vocabulary THEN st.vocabIndex + 1 ELSE st.vocabIndex,
   docFreq    |-> Put(st.docFreq, token, DocFreqOrZero(st.docFreq, token) + 1)]

\* body of tokens.forEach((token) => ...)
AddToken(st, token) ==
  LET fresh == NotVocabulary(st.vocabulary, token) IN
  [vocabulary |-> IF fresh THEN Put(st.vocabulary, token, st.vocabIndex) ELSE st.vocabulary,
   vocabIndex |-> IF fresh THEN st.vocabIndex + 1 ELSE st.vocabIndex,
   docFreq    |-> Put(st.docFreq, token, DocFreqOrZero(st.docFreq, token) + 1)]

RECURSIVE AddTokens(_, _)
AddTokens(st, tokens) ==
  IF tokens = <<>> THEN st
  ELSE AddTokens(AddToken(st, Head(tokens)), Tail(tokens))

\* mutant: every occurrence of a term is counted
DocTokensRepeated(text) == tokenize(text)

\* const uniqueTokens = [...new Set(tokens)]
DocTokens(text) == Unique(tokenize(text))

\* mutant: ln(docFreq / totalDocs)
LogRatioInverted(num, den) == [num |-> den, den |-> num]

\* Math.log(num / den), kept as the two integers of the quotient: positive
\* exactly when num > den, zero exactly when num = den
LogRatio(num, den) == [num |-> num, den |-> den]

\* body of documents.forEach((doc) => ...) for the next document
ScanDocument ==
  /\ vpc = "scan"
  /\ docPos < Len(documents)
  /\ LET st == AddTokens([vocabulary |-> vocabulary, vocabIndex |-> vocabIndex,
                          docFreq |-> docFreq],
                         DocTokens(documents[docPos + 1]))
     IN /\ vocabulary' = st.vocabulary
        /\ vocabIndex' = st.vocabIndex
        /\ docFreq' = st.docFreq
  /\ docPos' = docPos + 1
  /\ UNCHANGED <<documents, idf, vpc, encText, sparseVector>>
  /\ UNCHANGED <<pipeVars, loadVars, fetchVars>>

\* second pass: idf[token] for every key of docFreq, then return
ComputeIDF ==
  /\ vpc = "scan"
  /\ docPos = Len(documents)
  /\ idf' = [t \in DOMAIN docFreq |-> LogRatio(Len(documents), docFreq[t])]
  /\ vpc' = "done"
  /\ UNCHANGED <<documents, docPos, vocabulary, docFreq, vocabIndex, encText, sparseVector>>
  /\ UNCHANGED <<pipeVars, loadVars, fetchVars>>

LakersWon  == <<"L", "a", "k", "e", "r", "s", " ", "w", "o", "n">>
LakersLost == <<"L", "a", "k", "e", "r", "s", " ", "l", "o", "s", "t">>

\* "aB.ab Ba" (a term twice in one text) and "ba  ab.a" (a one-letter token)
AbAbBa == <<"a", "B", ".", "a", "b", " ", "B", "a">>
BaAbA  == <<"b", "a", " ", " ", "a", "b", ".", "a">>

(***************************************************************************)
(* calculateTF, generateSparseVector                                       *)
(***************************************************************************)
\* number of k with tokens[k] = token
CountOf(tokens, token) == Cardinality({k \in 1..Len(tokens) : tokens[k] = token})

\* mutant: the encoder walks the token list instead of the keys of tf
TfKeysAllTokens(tokens) == tokens

\* Object.keys(tf): every token once, in the order first inserted
TfKeys(tokens) == Unique(tokens)

\* tf[token] = count / totalTokens, kept as the two integers of the quotient
calculateTF(tokens) ==
  LET keys == TfKeys(tokens) IN
  [t \in {keys[k] : k \in 1..Len(keys)} |->
     [count |-> CountOf(tokens, t), total |-> Len(tokens)]]

\* a missing property reads as undefined
Lookup(m, key) == IF key \in DOMAIN m THEN m[key] ELSE "undefined"

\* mutant: a term outside the vocabulary is encoded too
InVocabularyAlways(voc, token) == TRUE

\* vocabulary[token] !== undefined
InVocabulary(voc, token) == token \in DOMAIN voc

\* idf[token] || 0, the number 0 kept as ln(1/1)
IdfOrZero(idfTable, token) ==
  IF token \in DOMAIN idfTable THEN idfTable[token] ELSE LogRatio(1, 1)

\* tf[token] * (idf[token] || 0): (count / total) * ln(num / den)
TfIdf(tfv, idfv) == [count |-> tfv.count, total |-> tfv.total, num |-> idfv.num, den |-> idfv.den]

\* mutant: a weight of zero is emitted as well
IsPositiveOrZero(w) == w.count >= 0 /\ w.num >= w.den

\* tfidf > 0: the quotient count/total and the logarithm are both positive
IsPositive(w) == w.count > 0 /\ w.num > w.den

\* mutant: the index is pushed before the weight is tested
EmitTokenIndexFirst(sv, token, tf, voc, idfTable) ==
  IF InVocabulary(voc, token)
  THEN LET tfidf == TfIdf(tf[token], IdfOrZero(idfTable, token)) IN
       [indices |-> Append(sv.indices, Lookup(voc, token)),
        values  |-> IF IsPositive(tfidf) THEN Append(sv.values, tfidf) ELSE sv.values]
  ELSE sv

\* mutant: a term outside the vocabulary gets the next free index and its
\* term frequency as weight
EmitTokenUnknownAsNew(sv, token, tf, voc, idfTable) ==
  LET known == InVocabulary(voc, token)
      index == IF known THEN Lookup(voc, token) ELSE Cardinality(DOMAIN voc)
      tfidf == TfIdf(tf[token], IF known THEN IdfOrZero(idfTable, token) ELSE LogRatio(2, 1))
  IN IF IsPositive(tfidf)
     THEN [indices |-> Append(sv.indices, index), values |-> Append(sv.values, tfidf)]
     ELSE sv

\* body of Object.keys(tf).forEach((token) => ...)
EmitToken(sv, token, tf, voc, idfTable) ==
  IF InVocabulary(voc, token)
  THEN LET index == Lookup(voc, token)
           tfidf == TfIdf(tf[token], IdfOrZero(idfTable, token))
       IN IF IsPositive(tfidf)
          THEN [indices |-> Append(sv.indices, index), values |-> Append(sv.values, tfidf)]
          ELSE sv
  ELSE sv

RECURSIVE EmitTokens(_, _, _, _, _)
EmitTokens(sv, keys, tf, voc, idfTable) ==
  IF keys = <<>> THEN sv
  ELSE EmitTokens(EmitToken(sv, Head(keys), tf, voc, idfTable), Tail(keys), tf, voc, idfTable)

EmptyVector == [indices |-> <<>>, values |-> <<>>]

generateSparseVector(text, voc, idfTable) ==
  LET tokens == tokenize(text)
      tf == calculateTF(tokens)
  IN EmitTokens(EmptyVector, TfKeys(tokens), tf, voc, idfTable)

\* mutant: the encoder adds the terms it does not know to the vocabulary
EncodeLearning(text) ==
  /\ vpc \in {"done", "encoded"}
  /\ encText' = text
  /\ sparseVector' = generateSparseVector(text, vocabulary, idf)
  /\ vocabulary' = AddTokens([vocabulary |-> vocabulary, vocabIndex |-> vocabIndex,
                              docFreq |-> docFreq], DocTokens(text)).vocabulary
  /\ vpc' = "encoded"
  /\ UNCHANGED <<documents, docPos, docFreq, vocabIndex, idf>>
  /\ UNCHANGED <<pipeVars, loadVars, fetchVars>>

\* one call generateSparseVector(text, vocabulary, idf) after the build
Encode(text) ==
  /\ vpc \in {"done", "encoded"}
  /\ encText' = text
  /\ sparseVector' = generateSparseVector(text, vocabulary, idf)
  /\ vpc' = "encoded"
  /\ UNCHANGED <<documents, docPos, vocabulary, docFreq, vocabIndex, idf>>
  /\ UNCHANGED <<pipeVars, loadVars, fetchVars>>

\* texts main encodes besides the records: the query, with terms the corpus
\* may lack
OnAb      == <<"o", "n", " ", "a", "b">>
EmptyText == <<>>
QueryTexts == {AbAbBa, OnAb, EmptyText}

EncodeTexts == {documents[d] : d \in 1..Len(documents)} \cup QueryTexts

VocabNext ==
  \/ ScanDocument
  \/ ComputeIDF
  \/ \E text \in EncodeTexts : Encode(text)

Alphabet == {"a", "B", "."}

Texts == UNION { [1..k -> Alphabet] : k \in 0..MaxTextLen }

ExampleCorpora ==
  { <<LakersWon, LakersLost>>,
    <<LakersWon, LakersLost, LakersWon>>,
    <<AbAbBa, BaAbA>>,
    <<BaAbA, AbAbBa, BaAbA>> }


(***************************************************************************)
(* fetchJson (historical-data and upcoming-data nbaApi.js): one call       *)
(***************************************************************************)
DEFAULT_DELAY_MS == 400
MAX_RETRIES      == 3

RECURSIVE Pow2(_)
Pow2(n) == IF n = 0 THEN 1 ELSE 2 * Pow2(n - 1)

\* mutant: the same wait before every retry
WaitTimeFlat(att) == DEFAULT_DELAY_MS

\* DEFAULT_DELAY_MS * Math.pow(2, attempt - 1)
WaitTime(att) == DEFAULT_DELAY_MS * Pow2(att - 1)

\* response.ok
IsOk(status) == status >= 200 /\ status <= 299

\* mutant: one more attempt is allowed
MayRetryInclusive(att, status) == att <= MAX_RETRIES /\ (status >= 500 \/ status = 429)

\* attempt < MAX_RETRIES && (response.status >= 500 || response.status === 429)
MayRetry(att, status) == att < MAX_RETRIES /\ (status >= 500 \/ status = 429)

FetchEvent(kind, att, status, ms) == [kind |-> kind, attempt |-> att, status |-> status, ms |-> ms]

NoThrow == [status |-> 0, endpoint |-> "none"]

\* the error fetchJson throws: error.status and error.endpoint
FetchError(status, ep) == [status |-> status, endpoint |-> ep]

\* const response = await fetch(url, ...): the request goes out
FetchSend ==
  /\ fpc = "call"
  /\ flog' = Append(flog, FetchEvent("request", fetchAttempt, 0, 0))
  /\ fpc' = "awaiting"
  /\ UNCHANGED <<endpoint, fetchAttempt, lastStatus, thrown>>
  /\ UNCHANGED <<pipeVars, vocabVars, loadVars>>

\* the response arrives and fetchJson returns, throws, or starts its wait
FetchResponse(status) ==
  /\ fpc = "awaiting"
  /\ lastStatus' = status
  /\ LET seen == Append(flog, FetchEvent("response", fetchAttempt, status, 0)) IN
       IF IsOk(status)
       THEN /\ fpc' = "returned"
            /\ flog' = seen
            /\ UNCHANGED thrown
       ELSE IF status = 404
       THEN /\ fpc' = "thrown"
            /\ thrown' = FetchError(status, endpoint)
            /\ flog' = seen
       ELSE IF MayRetry(fetchAttempt, status)
       THEN /\ fpc' = "delay"
            /\ flog' = Append(seen, FetchEvent("wait", fetchAttempt, 0, WaitTime(fetchAttempt)))
            /\ UNCHANGED thrown
       ELSE /\ fpc' = "thrown"
            /\ thrown' = FetchError(status, endpoint)
            /\ flog' = seen
  /\ UNCHANGED <<endpoint, fetchAttempt>>
  /\ UNCHANGED <<pipeVars, vocabVars, loadVars>>

\* the wait is over: return fetchJson(endpoint, params, fetchAttempt + 1)
FetchRetry ==
  /\ fpc = "delay"
  /\ fetchAttempt' = fetchAttempt + 1
  /\ fpc' = "call"
  /\ UNCHANGED <<endpoint, lastStatus, thrown, flog>>
  /\ UNCHANGED <<pipeVars, vocabVars, loadVars>>

\* statuses the service answers with: ok, not found, a client error, rate
\* limit, and two server errors
Statuses == {200, 404, 400, 429, 500, 503}

Endpoints == {"leaguegamelog", "commonallplayers"}

FetchNext ==
  \/ FetchSend
  \/ \E status \in Statuses : FetchResponse(status)
  \/ FetchRetry

FetchIdle ==
  /\ endpoint = "none"
  /\ fetchAttempt = 1
  /\ fpc = "idle"
  /\ lastStatus = 0
  /\ thrown = NoThrow
  /\ flog = <<>>

(***************************************************************************)
(* loadAllNbaData: the records of one run, and two runs over the same files*)
(***************************************************************************)
MaxGames    == 11
MaxUpcoming == 1
MaxInjuries == 2
Runs        == 2

\* games.filter((_, index) => index % 10 === 0)
SAMPLE_EVERY == 10

IsSampled(index) == index % SAMPLE_EVERY = 0

RECURSIVE SampledFrom(_, _)
SampledFrom(games, k) ==
  IF k > Len(games) THEN <<>>
  ELSE (IF IsSampled(k - 1) THEN <<games[k]>> ELSE <<>>) \o SampledFrom(games, k + 1)

sampledGames(games) == SampledFrom(games, 1)

\* a value JS treats as false in `!x` and `x || y`: undefined, null, 0, ""
Falsy(v) == v = 0

\* ids are template strings; a string `a_b_c` is kept as the tuple of its parts
TeamId(year, game) == <<"team", year, game.GAME_ID>>

PlayerId(year, game, player) == <<"player", year, game.GAME_ID, player.PLAYER_ID>>

UpcomingId(game) == <<"upcoming", game.gameId>>

\* injury.playerId || `unknown_${Date.now()}_${Math.random()}`
InjuryPlayerId(injury, now, rnd) ==
  IF Falsy(injury.playerId) THEN <<"unknown", now, rnd>> ELSE <<"known", injury.playerId, 0>>

InjuryId(injury, now, rnd) == <<"injury">> \o InjuryPlayerId(injury, now, rnd) \o <<injury.date>>

\* a record: its _id, its category, and the team field where it has one
Record(id, category, team) == [id |-> id, category |-> category, team |-> team]

\* player.MIN && player.MIN > 0
Played(player) == ~Falsy(player.MIN) /\ player.MIN > 0

RECURSIVE PlayerRecords(_, _, _)
PlayerRecords(year, game, players) ==
  IF players = <<>> THEN <<>>
  ELSE (IF Played(Head(players))
        THEN <<Record(PlayerId(year, game, Head(players)), "player-game",
                      game.TEAM_ABBREVIATION)>>
        ELSE <<>>) \o PlayerRecords(year, game, Tail(players))

\* body of sampledGames.forEach((game, index) => ...)
GameRecords(year, game) ==
  <<Record(TeamId(year, game), "team-game", game.TEAM_ABBREVIATION)>>
    \o PlayerRecords(year, game, game.playerStats)

\* createUpcomingGameContent reads game.homeTeam.teamCity and
\* game.visitorTeam.teamCity: a TypeError when either object is missing
UpcomingThrows(game) == ~game.homeTeam \/ ~game.visitorTeam

\* if (!injury.playerName || !injury.date) return;
InjurySkipped(injury) == ~injury.playerName \/ Falsy(injury.date)

Ids(recs) == [k \in 1..Len(recs) |-> recs[k].id]

IdSet(recs) == {recs[k].id : k \in 1..Len(recs)}

LoadStart ==
  /\ lpc = "start"
  /\ lpc' = "historical"
  /\ lpos' = 0
  /\ loaded' = <<>>
  /\ UNCHANGED <<source, run, prevLoaded, indexIds, firstIndexIds>>
  /\ UNCHANGED <<pipeVars, vocabVars, fetchVars>>

LoadGame ==
  /\ lpc = "historical"
  /\ lpos < Len(sampledGames(source.games))
  /\ loaded' = loaded \o GameRecords(source.year, sampledGames(source.games)[lpos + 1])
  /\ lpos' = lpos + 1
  /\ UNCHANGED <<source, run, lpc, prevLoaded, indexIds, firstIndexIds>>
  /\ UNCHANGED <<pipeVars, vocabVars, fetchVars>>

LoadHistoricalDone ==
  /\ lpc = "historical"
  /\ lpos = Len(sampledGames(source.games))
  /\ lpc' = "upcoming"
  /\ lpos' = 0
  /\ UNCHANGED <<source, run, loaded, prevLoaded, indexIds, firstIndexIds>>
  /\ UNCHANGED <<pipeVars, vocabVars, fetchVars>>

\* body of games.forEach((game) => ...) for an upcoming game
LoadUpcomingGame ==
  /\ lpc = "upcoming"
  /\ lpos < Len(source.upcoming)
  /\ LET game == source.upcoming[lpos + 1] IN
       IF UpcomingThrows(game)
       THEN /\ lpc' = "failed"
            /\ UNCHANGED <<lpos, loaded>>
       ELSE /\ loaded' = Append(loaded, Record(UpcomingId(game), "upcoming", "-"))
            /\ lpos' = lpos + 1
            /\ UNCHANGED lpc
  /\ UNCHANGED <<source, run, prevLoaded, indexIds, firstIndexIds>>
  /\ UNCHANGED <<pipeVars, vocabVars, fetchVars>>

LoadUpcomingDone ==
  /\ lpc = "upcoming"
  /\ lpos = Len(source.upcoming)
  /\ lpc' = "injuries"
  /\ lpos' = 0
  /\ UNCHANGED <<source, run, loaded, prevLoaded, indexIds, firstIndexIds>>
  /\ UNCHANGED <<pipeVars, vocabVars, fetchVars>>

\* body of injuries.forEach((injury) => ...); now and rnd are what Date.now()
\* and Math.random() return
LoadInjury(now, rnd) ==
  /\ lpc = "injuries"
  /\ lpos < Len(source.injuries)
  /\ LET injury == source.injuries[lpos + 1] IN
       loaded' = IF InjurySkipped(injury) THEN loaded
                 ELSE Append(loaded, Record(InjuryId(injury, now, rnd), "injury", "Unknown"))
  /\ lpos' = lpos + 1
  /\ UNCHANGED <<source, run, lpc, prevLoaded, indexIds, firstIndexIds>>
  /\ UNCHANGED <<pipeVars, vocabVars, fetchVars>>

\* return records
LoadReturn ==
  /\ lpc = "injuries"
  /\ lpos = Len(source.injuries)
  /\ lpc' = "returned"
  /\ UNCHANGED <<source, run, lpos, loaded, prevLoaded, indexIds, firstIndexIds>>
  /\ UNCHANGED <<pipeVars, vocabVars, fetchVars>>

\* the upserts of main: a record replaces the stored record of the same id
UpsertAll ==
  /\ lpc = "returned"
  /\ indexIds' = indexIds \cup IdSet(loaded)
  /\ firstIndexIds' = IF run = 1 THEN IdSet(loaded) ELSE firstIndexIds
  /\ lpc' = "upserted"
  /\ UNCHANGED <<source, run, lpos, loaded, prevLoaded>>
  /\ UNCHANGED <<pipeVars, vocabVars, fetchVars>>

\* the program is run again over the same files
RunAgain ==
  /\ lpc = "upserted"
  /\ run < Runs
  /\ run' = run + 1
  /\ prevLoaded' = loaded
  /\ lpc' = "start"
  /\ UNCHANGED <<source, lpos, loaded, indexIds, firstIndexIds>>
  /\ UNCHANGED <<pipeVars, vocabVars, fetchVars>>

\* values Date.now() and Math.random() can return
Clock   == {1, 2}
Randoms == {1, 2}

LoadNext ==
  \/ LoadStart
  \/ LoadGame
  \/ LoadHistoricalDone
  \/ LoadUpcomingGame
  \/ LoadUpcomingDone
  \/ \E now \in Clock : \E rnd \in Randoms : LoadInjury(now, rnd)
  \/ LoadReturn
  \/ UpsertAll
  \/ RunAgain

\* rows of a historical file: two game ids, with and without player rows
Player(id, min) == [PLAYER_ID |-> id, MIN |-> min]
Teams == {"LAL", "BOS"}

\* the box-score lines of a team in a game: one player who played, one who did not
Roster(team) ==
  IF team = "LAL" THEN <<Player(7, 1), Player(8, 0)>> ELSE <<Player(9, 1), Player(10, 0)>>

\* a row of the team game log: one row per team and game
GameRows ==
  { [GAME_ID |-> g, TEAM_ABBREVIATION |-> t, playerStats |-> ps] :
      g \in {1, 2}, t \in Teams, ps \in {<<>>} \cup {Roster(tt) : tt \in Teams} }
FillerRow == [GAME_ID |-> 3, TEAM_ABBREVIATION |-> "LAL", playerStats |-> <<>>]

\* the log has one row per team of a game, with that team's players
OneRowPerTeam(f) ==
  /\ \A k \in DOMAIN f : f[k].playerStats \in {<<>>, Roster(f[k].TEAM_ABBREVIATION)}
  /\ \A j \in DOMAIN f : \A k \in DOMAIN f :
       j # k /\ f[j].GAME_ID = f[k].GAME_ID => f[j].TEAM_ABBREVIATION # f[k].TEAM_ABBREVIATION

\* files of n rows whose rows at positions that are not sampled are FillerRow
GameFiles ==
  UNION { { [k \in 1..n |-> IF IsSampled(k - 1) THEN f[k] ELSE FillerRow] :
              f \in {g \in [{k \in 1..n : IsSampled(k - 1)} -> GameRows] : OneRowPerTeam(g)} } :
          n \in {0, 1, MaxGames} }

\* an upcoming game with, or without, its homeTeam and visitorTeam objects
UpcomingGames ==
  { [gameId |-> 1, homeTeam |-> TRUE,  visitorTeam |-> TRUE],
    [gameId |-> 1, homeTeam |-> FALSE, visitorTeam |-> TRUE],
    [gameId |-> 1, homeTeam |-> TRUE,  visitorTeam |-> FALSE] }

\* injury reports: complete, without playerId, without playerName, without date
Injuries ==
  { [playerName |-> TRUE,  date |-> 1, playerId |-> 5],
    [playerName |-> TRUE,  date |-> 1, playerId |-> 0],
    [playerName |-> FALSE, date |-> 1, playerId |-> 5],
    [playerName |-> TRUE,  date |-> 0, playerId |-> 5] }

EmptySource == [year |-> 0, games |-> <<>>, upcoming |-> <<>>, injuries |-> <<>>]

LoadIdle ==
  /\ source = EmptySource
  /\ run = 1
  /\ lpc = "idle"
  /\ lpos = 0
  /\ loaded = <<>>
  /\ prevLoaded = <<>>
  /\ indexIds = {}
  /\ firstIndexIds = {}

PipeIdle ==
  /\ records = <<>>
  /\ sparseVectors = <<>>
  /\ pc = "idle"
  /\ i = 0
  /\ batch = <<>>
  /\ inFlight = {}
  /\ log = <<>>
  /\ bstate = <<>>
  /\ failedAt = "none"

VocabInit ==
  /\ \/ \E d \in 0..MaxDocs : documents \in [1..d -> Texts]
     \/ documents \in ExampleCorpora
  /\ docPos = 0
  /\ vocabulary = <<>>
  /\ docFreq = <<>>
  /\ vocabIndex = 0
  /\ idf = <<>>
  /\ vpc = "scan"
  /\ encText = <<>>
  /\ sparseVector = EmptyVector
  /\ PipeIdle
  /\ LoadIdle
  /\ FetchIdle

VocabSpec == VocabInit /\ [][VocabNext]_vars

PipeNext ==
  \/ Start
  \/ BuildVocabulary
  \/ DenseSubmit
  \/ DenseLoopExit
  \/ DenseUpsertOk
  \/ DenseDelay
  \/ \E err \in Errors : DenseUpsertError(err)
  \/ DenseRetry
  \/ DenseRetryOk
  \/ \E err \in Errors : DenseRetryError(err)
  \/ SparseMap
  \/ SparseSubmit
  \/ SparseLoopExit
  \/ SparseUpsertOk
  \/ SparseDelay
  \/ \E err \in Errors : SparseUpsertError(err)
  \/ SparseRetry
  \/ SparseRetryOk
  \/ \E err \in Errors : SparseRetryError(err)
  \/ SparseReport
  \/ StatsOk
  \/ \E err \in Errors : StatsError(err)
  \/ DenseSearchOk
  \/ \E err \in Errors : DenseSearchError(err)
  \/ \E res \in Errors \cup {NoError} : SparseSearch(res)

\* record counts around the batch boundaries of both targets, up to MaxRecords
RecordCounts ==
  { n \in 0..MaxRecords :
      \/ n % BATCH_SIZE \in {0, 1, BATCH_SIZE - 1}
      \/ n % SPARSE_BATCH_SIZE \in {0, 1, SPARSE_BATCH_SIZE - 1}
      \/ n = MaxRecords
      \/ n = 250 }

VocabIdle ==
  /\ documents = <<>>
  /\ docPos = 0
  /\ vocabulary = <<>>
  /\ docFreq = <<>>
  /\ vocabIndex = 0
  /\ idf = <<>>
  /\ vpc = "idle"
  /\ encText = <<>>
  /\ sparseVector = EmptyVector

Init ==
  /\ \E n \in RecordCounts : records = [p \in 1..n |-> p]
  /\ sparseVectors = <<>>
  /\ pc = "start"
  /\ i = 0
  /\ batch = <<>>
  /\ inFlight = {}
  /\ log = <<>>
  /\ bstate = <<>>
  /\ failedAt = "none"
  /\ VocabIdle
  /\ LoadIdle
  /\ FetchIdle

Next == PipeNext

Spec == Init /\ [][Next]_vars

\* every awaited call and timer of main returns: a step that can be taken is
\* taken
LiveSpec == Init /\ [][Next]_vars /\ WF_vars(Next)

LoadInit ==
  /\ \E g \in GameFiles :
       \E u \in 0..MaxUpcoming : \E up \in [1..u -> UpcomingGames] :
         \E n \in 0..MaxInjuries : \E inj \in [1..n -> Injuries] :
           source = [year |-> 2024, games |-> g, upcoming |-> up, injuries |-> inj]
  /\ run = 1
  /\ lpc = "start"
  /\ lpos = 0
  /\ loaded = <<>>
  /\ prevLoaded = <<>>
  /\ indexIds = {}
  /\ firstIndexIds = {}
  /\ PipeIdle
  /\ VocabIdle
  /\ FetchIdle

LoadSpec == LoadInit /\ [][LoadNext]_vars

\* a call fetchJson(endpoint, params) with the default attempt = 1
FetchInit ==
  /\ endpoint \in Endpoints
  /\ fetchAttempt = 1
  /\ fpc = "call"
  /\ lastStatus = 0
  /\ thrown = NoThrow
  /\ flog = <<>>
  /\ PipeIdle
  /\ VocabIdle
  /\ LoadIdle

FetchSpec == FetchInit /\ [][FetchNext]_vars

(***************************************************************************)
(* Reading the history                                                     *)
(***************************************************************************)
LogIdx == 1..Len(log)

IsUpsertErr(e)  == e.kind = "err"
IsSubmit(e)     == e.kind = "submit"
IsUpsertOk(e)   == e.kind = "ok"
IsOtherError(err) == err.status # 429 /\ ~err.denseMsg

\* the upsert error at position k propagated out of main: nothing ran after it
Propagated(k) == k = Len(log) /\ pc = "failed"

UpsertFailed == failedAt \in {"dense_upsert", "dense_retry", "sparse_upsert", "sparse_retry"}

NoSubmitAfter(k) == \A j \in LogIdx : j > k => ~IsSubmit(log[j])

SubmitCount(target, idx) ==
  Cardinality({k \in LogIdx : IsSubmit(log[k]) /\ log[k].target = target /\ log[k].idx = idx})

FirstSubmitIdx(target) ==
  {k \in LogIdx : IsSubmit(log[k]) /\ log[k].target = target /\ log[k].attempt = 1}

\* the event e is the rejection of the given upsert call with err
IsRejection(e, target, idx, attempt, err) ==
  /\ e.kind = "err"
  /\ e.target = target /\ e.idx = idx /\ e.attempt = attempt
  /\ e.err = err

ErrFree(target) == \A k \in LogIdx : IsUpsertErr(log[k]) => log[k].target # target

LoopFinished(target) == \E k \in LogIdx : log[k] = ReportEv(target)

RECURSIVE FirstBatches(_, _)
FirstBatches(lg, target) ==
  IF lg = <<>> THEN <<>>
  ELSE LET e == Head(lg) IN
       IF IsSubmit(e) /\ e.target = target /\ e.attempt = 1
       THEN <<e.batch>> \o FirstBatches(Tail(lg), target)
       ELSE FirstBatches(Tail(lg), target)

RECURSIVE Flatten(_)
Flatten(ss) == IF ss = <<>> THEN <<>> ELSE Head(ss) \o Flatten(Tail(ss))

CeilDiv(n, b) == (n + b - 1) \div b

(***************************************************************************)
(* C1 (vocabulary indexes in first-seen order)                             *)
(***************************************************************************)
RECURSIVE CorpusTokens(_, _)
CorpusTokens(docs, d) ==
  IF d = 0 THEN <<>> ELSE CorpusTokens(docs, d - 1) \o tokenize(docs[d])

\* the distinct terms of the first d documents, in the order first met
FirstSeen(docs, d) == Unique(CorpusTokens(docs, d))

\* C1: at every point of the scan each term's index is the number of distinct
\* terms first met before it (so it is 0, 1, 2, ... in first-seen order and
\* never changes once assigned); the corpus ["Lakers won", "Lakers lost"]
\* ends with lakers:0, won:1, lost:2.
C1_FirstSeenIndex ==
  LET order == FirstSeen(documents, docPos) IN
    /\ DOMAIN vocabulary = {order[k] : k \in 1..Len(order)}
    /\ \A k \in 1..Len(order) : vocabulary[order[k]] = k - 1

C3_RetryOnceAfterCooldown ==
  /\ \A k \in LogIdx :
       IsSubmit(log[k]) /\ log[k].attempt # 1 =>
         /\ k >= 4
         /\ log[k].attempt = 2
         /\ log[k - 1] = SleepEv(log[k].target, log[k].idx, 60000)
         /\ log[k - 2] = ErrEv(log[k].target, log[k].idx, 1, log[k - 2].err)
         /\ log[k - 2].err.status = 429
         /\ log[k - 3] = SubmitEv(log[k].target, log[k].idx, 1, log[k].batch)
  /\ \A k \in LogIdx :
       IsUpsertErr(log[k]) /\ log[k].attempt = 1 /\ log[k].err.status = 429 =>
         \/ k = Len(log) /\ pc \in {"dense_cooldown", "sparse_cooldown"}
         \/ /\ k + 2 <= Len(log)
            /\ log[k + 1] = SleepEv(log[k].target, log[k].idx, 60000)
            /\ log[k + 2] = SubmitEv(log[k].target, log[k].idx, 2, log[k - 1].batch)
  /\ \A k \in LogIdx : IsSubmit(log[k]) => SubmitCount(log[k].target, log[k].idx) <= 2

C3_Witness ==
  \E k \in LogIdx :
    /\ log[k] = SubmitEv("sparse", 100, 2, log[k].batch)
    /\ Len(log[k].batch) = 100
    /\ \E j \in LogIdx : j > k /\ log[j] = OkEv("sparse", 100, 2)

(***************************************************************************)
(* C4 (the retry fails)                                                    *)
(***************************************************************************)
\* C4: whatever error the retry of a rate-limited batch raises, on either
\* target, it propagates out of main: the run is failed and nothing runs
\* after it.
C4_RetryFailurePropagates ==
  \A k \in LogIdx :
    IsUpsertErr(log[k]) /\ log[k].attempt = 2 =>
      /\ Propagated(k)
      /\ failedAt = (IF log[k].target = "dense" THEN "dense_retry" ELSE "sparse_retry")

C4_Witness ==
  /\ pc = "failed"
  /\ Len(log) > 0
  /\ IsRejection(log[Len(log)], "sparse", 0, 2, Misconfigured)

(***************************************************************************)
(* C5 (sparse target rejects with the misconfiguration error)              *)
(***************************************************************************)
DenseUntouchedAfter(k) ==
  \A j \in LogIdx :
    j > k => ~(log[j].target = "dense" /\ log[j].kind \in {"submit", "ok", "err"})

\* C5 as stated: whenever a sparse upsert is rejected with the
\* misconfiguration error, no later batch is submitted, no upsert error
\* propagates out of main and the dense batches are untouched.
C5_MisconfigurationIsolated ==
  \A k \in LogIdx :
    IsUpsertErr(log[k]) /\ log[k].target = "sparse" /\ IsMisconfigured(log[k].err) =>
      /\ NoSubmitAfter(k)
      /\ ~UpsertFailed
      /\ DenseUntouchedAfter(k)

\* C5 amended: this holds when the first attempt of a sparse batch is
\* rejected with the misconfiguration error (status other than 429): main
\* leaves the sparse loop and goes on with the steps after it; if the run
\* then fails, it is a later statistics or search call that failed.
C5_FirstAttemptMisconfigurationIsolated ==
  \A k \in LogIdx :
    /\ IsUpsertErr(log[k]) /\ log[k].target = "sparse" /\ log[k].attempt = 1
    /\ IsMisconfigured(log[k].err) /\ log[k].err.status # 429
    => /\ NoSubmitAfter(k)
       /\ ~UpsertFailed
       /\ DenseUntouchedAfter(k)
       /\ k = Len(log) => pc = "sparse_after"
       /\ pc = "failed" => failedAt \in {"stats", "dense_search"}

C5_Witness ==
  /\ pc = "done"
  /\ \E k \in LogIdx : IsRejection(log[k], "sparse", 100, 1, Misconfigured)
  /\ \A j \in {0, 96, 192} : BatchState("dense", j) = "Done"

(***************************************************************************)
(* C6 (delay between consecutive batches)                                  *)
(***************************************************************************)
\* C6: every batch but the first of its target is submitted directly after
\* the 3000 ms delay that follows the completion of the batch before it,
\* also when that batch succeeded on its retry.
C6_DelayBeforeNextBatch ==
  \A k \in LogIdx :
    IsSubmit(log[k]) /\ log[k].attempt = 1 /\ log[k].idx > 0 =>
      /\ k >= 3
      /\ log[k - 1].kind = "sleep"
      /\ log[k - 1].target = log[k].target
      /\ log[k - 1].ms = 3000
      /\ IsUpsertOk(log[k - 2])

(***************************************************************************)
(* C7 (batches partition the records)                                      *)
(***************************************************************************)
\* bs are contiguous slices of all, in order: full batches of size b and a
\* last one of 1..b records
Partitions(bs, all, b) ==
  /\ Len(bs) = CeilDiv(Len(all), b)
  /\ \A j \in 1..Len(bs) - 1 : Len(bs[j]) = b
  /\ Len(bs) > 0 => Len(bs[Len(bs)]) \in 1..b
  /\ \A j \in 1..Len(bs) : bs[j] = SubSeq(all, (j - 1) * b + 1, (j - 1) * b + Len(bs[j]))
  /\ Flatten(bs) = all

AllSubmitCount(target) ==
  Cardinality({k \in LogIdx : IsSubmit(log[k]) /\ log[k].target = target})

BatchSizes(bs) == [j \in 1..Len(bs) |-> Len(bs[j])]

\* C7: when a target's loop has ended and none of its upserts failed, exactly
\* ceil(n/B) batches were issued (B = 96 dense, 100 sparse), they are
\* contiguous slices in record order, all of size B except the last of
\* 1..B, and together they are the whole record sequence; 250 records give
\* the dense sizes 96, 96, 58.
C7_BatchesPartitionRecords ==
  /\ LoopFinished("dense") /\ ErrFree("dense") =>
       /\ Partitions(FirstBatches(log, "dense"), records, 96)
       /\ AllSubmitCount("dense") = CeilDiv(Len(records), 96)
       /\ Len(records) = 250 => BatchSizes(FirstBatches(log, "dense")) = <<96, 96, 58>>
  /\ LoopFinished("sparse") /\ ErrFree("sparse") =>
       /\ Partitions(FirstBatches(log, "sparse"),
                     [p \in 1..Len(records) |-> <<records[p], "_sparse">>], 100)
       /\ AllSubmitCount("sparse") = CeilDiv(Len(records), 100)

C7_Witness ==
  /\ pc = "done"
  /\ Len(records) = 250
  /\ ErrFree("dense") /\ ErrFree("sparse")
  /\ BatchSizes(FirstBatches(log, "dense")) = <<96, 96, 58>>
  /\ BatchSizes(FirstBatches(log, "sparse")) = <<100, 100, 50>>

(***************************************************************************)
(* C8 (k - 1 delays for k batches)                                         *)
(***************************************************************************)
DelayCount(target) ==
  Cardinality({k \in LogIdx :
     log[k].kind = "sleep" /\ log[k].target = target /\ log[k].ms = 3000})

DelayFollows(k) ==
  /\ k < Len(log)
  /\ log[k + 1].kind = "sleep"
  /\ log[k + 1].target = log[k].target
  /\ log[k + 1].ms = 3000

\* C8: when a target's loop has ended, it had k >= 1 batches and every one
\* succeeded on its first attempt, exactly k - 1 delays of 3000 ms were taken
\* for it: one directly after each accepted batch except the last, none
\* after the last; 250 records give 2 dense delays.
C8_DelaysBetweenBatches ==
  \A target \in {"dense", "sparse"} :
    LET k == Cardinality(FirstSubmitIdx(target)) IN
    LoopFinished(target) /\ ErrFree(target) /\ k >= 1 =>
      /\ DelayCount(target) = k - 1
      /\ \A j \in LogIdx :
           IsUpsertOk(log[j]) /\ log[j].target = target =>
             (DelayFollows(j) <=>
                \E m \in FirstSubmitIdx(target) : m > j)
      /\ (target = "dense" /\ Len(records) = 250) => DelayCount(target) = 2

C8_Witness ==
  /\ Len(records) = 250
  /\ LoopFinished("dense") /\ ErrFree("dense")
  /\ DelayCount("dense") = 2
  /\ Cardinality(FirstSubmitIdx("dense")) = 3

(***************************************************************************)
(* C9 (one upsert at a time, batch after batch)                            *)
(***************************************************************************)
Settles(e, call) ==
  /\ e.kind \in {"ok", "err"}
  /\ e.target = call.target /\ e.idx = call.idx /\ e.attempt = call.attempt

\* C9: at most one upsert call is in flight; every call is issued after all
\* earlier calls have settled; and a batch other than the first of its target
\* is first submitted only after the batch before it was accepted (on its
\* first attempt or on its retry).
C9_SequentialBatches ==
  /\ Cardinality(inFlight) <= 1
  /\ \A k \in LogIdx : IsSubmit(log[k]) =>
       \A j \in 1..(k - 1) : IsSubmit(log[j]) =>
         \E m \in (j + 1)..(k - 1) : Settles(log[m], log[j])
  /\ \A k \in LogIdx :
       IsSubmit(log[k]) /\ log[k].attempt = 1 /\ log[k].idx > 0 =>
         \E j \in 1..(k - 1) :
           /\ IsUpsertOk(log[j])
           /\ log[j].target = log[k].target
           /\ log[j].idx = log[k].idx - (IF log[k].target = "dense" THEN 96 ELSE 100)

C9_Witness ==
  /\ pc = "dense_upsert"
  /\ Cardinality(inFlight) = 1
  /\ i = 96
  /\ \E j \in LogIdx : log[j] = OkEv("dense", 0, 2)

(***************************************************************************)
(* C10 (state machine of a batch)                                          *)
(***************************************************************************)
Retried(key) ==
  \E k \in LogIdx :
    IsSubmit(log[k]) /\ log[k].target = key[1] /\ log[k].idx = key[2] /\ log[k].attempt = 2

OldState(key) == IF key \in DOMAIN bstate THEN bstate[key] ELSE "Pending"

\* the edges of the state machine as the claim gives them
ClaimedEdge(key, old, new) ==
  \/ old = "Pending"  /\ new = "InFlight"
  \/ old = "InFlight" /\ new = "Done"
  \/ old = "InFlight" /\ new = "Retrying" /\ ~Retried(key)
  \/ old = "Retrying" /\ new = "InFlight" /\ ~Retried(key)
  \/ old = "InFlight" /\ new = "Aborted"  /\ Retried(key)

\* C10 as stated: a batch changes state only along Pending -> InFlight,
\* InFlight -> Done, InFlight -> Retrying, Retrying -> InFlight (once) and,
\* after the retry, InFlight -> Aborted.
C10_BatchStateMachine ==
  [][\A key \in DOMAIN bstate' :
       OldState(key) # bstate'[key] => ClaimedEdge(key, OldState(key), bstate'[key])]_vars

\* the batch was rejected on its first attempt with an error that is not a 429
FirstAttemptRejected(key, lg) ==
  /\ Len(lg) > 0
  /\ lg[Len(lg)].kind = "err"
  /\ lg[Len(lg)].target = key[1] /\ lg[Len(lg)].idx = key[2]
  /\ lg[Len(lg)].attempt = 1
  /\ lg[Len(lg)].err.status # 429

\* C10 amended: the edges above, and also InFlight -> Aborted directly from
\* the first attempt when that attempt is rejected with an error that is not
\* a 429; a batch is retried at most once.
C10_BatchStateMachineWithDirectAbort ==
  [][\A key \in DOMAIN bstate' :
       OldState(key) # bstate'[key] =>
         \/ ClaimedEdge(key, OldState(key), bstate'[key])
         \/ /\ OldState(key) = "InFlight" /\ bstate'[key] = "Aborted"
            /\ ~Retried(key)
            /\ FirstAttemptRejected(key, log')]_vars

C10_Witness ==
  /\ <<"dense", 96>> \in DOMAIN bstate
  /\ bstate[<<"dense", 0>>] = "Done" /\ Retried(<<"dense", 0>>)
  /\ bstate[<<"dense", 96>>] = "Aborted" /\ ~Retried(<<"dense", 96>>)


(***************************************************************************)
(* C11 (HTTP 5xx from the index service)                                   *)
(***************************************************************************)
IsServerErrorAt(k) ==
  IsUpsertErr(log[k]) /\ log[k].attempt = 1 /\ log[k].err.status >= 500

\* C11 as stated: a first attempt answered with a 5xx status is followed by
\* the cooldown and one resubmission of the same batch, as for a 429.
C11_ServerErrorRetried ==
  \A k \in LogIdx :
    IsServerErrorAt(k) =>
      \/ k = Len(log) /\ pc \in {"dense_cooldown", "sparse_cooldown"}
      \/ /\ k + 2 <= Len(log)
         /\ log[k + 1] = SleepEv(log[k].target, log[k].idx, 60000)
         /\ log[k + 2] = SubmitEv(log[k].target, log[k].idx, 2, log[k - 1].batch)

\* C11 amended: a first attempt answered with a 5xx status is not retried:
\* no cooldown and no second submission of the batch follow, the batch is
\* given up; on the dense target the error propagates and the run fails, on
\* the sparse target the loop is left and no further batch is submitted.
C11_ServerErrorNotRetried ==
  \A k \in LogIdx :
    IsServerErrorAt(k) =>
      /\ BatchState(log[k].target, log[k].idx) = "Aborted"
      /\ SubmitCount(log[k].target, log[k].idx) = 1
      /\ NoSubmitAfter(k)
      /\ \A j \in LogIdx : j > k => ~(log[j].kind = "sleep" /\ log[j].ms = 60000)
      /\ log[k].target = "dense" => Propagated(k) /\ failedAt = "dense_upsert"
      /\ log[k].target = "sparse" => ~UpsertFailed

C11_Witness ==
  /\ pc = "done"
  /\ \E k \in LogIdx : IsRejection(log[k], "sparse", 100, 1, ServerError)


(***************************************************************************)
(* C19 (the build is complete before any encoding)                         *)
(***************************************************************************)
\* C19: every call of generateSparseVector, for the records or for the
\* query, comes after buildVocabularyAndIDF has returned, and the build is
\* run once.
C19_BuildBeforeEncode ==
  /\ \A k \in LogIdx :
       log[k].kind = "encode" => \E j \in 1..(k - 1) : log[j] = BuildEv
  /\ Cardinality({k \in LogIdx : log[k].kind = "build"}) <= 1

C19_Witness ==
  /\ pc = "done"
  /\ Len(records) = 250
  /\ \E k \in LogIdx : log[k].kind = "encode" /\ log[k].target = "records"
  /\ \E k \in LogIdx : log[k].kind = "encode" /\ log[k].target = "query"


(***************************************************************************)
(* C13 (IDF against document frequency)                                    *)
(***************************************************************************)
\* ln(a.num / a.den) <= ln(b.num / b.den), all four integers positive
LogLeq(a, b) == a.num * b.den <= b.num * a.den

LogIsPositive(a) == a.num > a.den

LogIsZero(a) == a.num = a.den

BuildDone == vpc \in {"done", "encoded"}

\* C13: once the IDF table of a corpus of totalDocs >= 1 documents is built,
\* a term met in at least as many documents as another has an IDF no larger,
\* the IDF of a term met in fewer than totalDocs documents is > 0, and the
\* IDF is 0 exactly for the terms met in every document.
C13_IdfMonotone ==
  BuildDone /\ Len(documents) >= 1 =>
    /\ DOMAIN idf = DOMAIN docFreq
    /\ \A t \in DOMAIN idf : \A u \in DOMAIN idf :
         docFreq[t] <= docFreq[u] => LogLeq(idf[u], idf[t])
    /\ \A t \in DOMAIN idf :
         /\ docFreq[t] < Len(documents) => LogIsPositive(idf[t])
         /\ LogIsZero(idf[t]) <=> docFreq[t] = Len(documents)

C13_Witness ==
  /\ vpc = "done"
  /\ Len(documents) = 2
  /\ \E t \in DOMAIN idf : \E u \in DOMAIN idf :
       /\ docFreq[t] = 1 /\ LogIsPositive(idf[t])
       /\ docFreq[u] = 2 /\ LogIsZero(idf[u])

(***************************************************************************)
(* C18 (document frequency)                                                *)
(***************************************************************************)
TokenSet(text) == {tokenize(text)[k] : k \in 1..Len(tokenize(text))}

\* the documents among the first d whose token sequence contains the term
DocsWith(term, d) == {j \in 1..d : term \in TokenSet(documents[j])}

\* C18: at every point of the first pass, and after the build, the document
\* frequency of a term is the number of scanned documents whose tokens
\* contain it (a repeat inside one document adds nothing), the terms counted
\* are the terms met, and after the build every term of the vocabulary has
\* 1 <= docFreq <= totalDocs.
C18_DocFreqCountsDocuments ==
  /\ DOMAIN docFreq = UNION {TokenSet(documents[j]) : j \in 1..docPos}
  /\ \A t \in DOMAIN docFreq : docFreq[t] = Cardinality(DocsWith(t, docPos))
  /\ BuildDone =>
       /\ docPos = Len(documents)
       /\ DOMAIN vocabulary = DOMAIN docFreq
       /\ \A t \in DOMAIN vocabulary : 1 <= docFreq[t] /\ docFreq[t] <= Len(documents)

C18_Witness ==
  /\ vpc = "done"
  /\ documents = <<AbAbBa, BaAbA>>
  /\ DOMAIN docFreq = {<<"a", "b">>, <<"b", "a">>}
  /\ docFreq[<<"a", "b">>] = 2
  /\ docFreq[<<"b", "a">>] = 2
  /\ CountOf(tokenize(AbAbBa), <<"a", "b">>) = 2


(***************************************************************************)
(* C14 (which terms a sparse vector holds)                                 *)
(***************************************************************************)
Encoded == vpc = "encoded"

\* the vector of the last encoding holds a pair for the term
Emitted(t) ==
  /\ t \in DOMAIN vocabulary
  /\ \E k \in 1..Len(sparseVector.indices) : sparseVector.indices[k] = vocabulary[t]

\* tf(t) * idf(t) > 0 for the text of the last encoding
WeightPositive(t) ==
  /\ CountOf(tokenize(encText), t) > 0
  /\ t \in DOMAIN idf
  /\ LogIsPositive(idf[t])

HalfLn2 == [count |-> 1, total |-> 2, num |-> 2, den |-> 1]

\* C14: after generateSparseVector(text, vocabulary, idf) the vector holds a
\* pair for a term exactly when the term is a token of the text, is in the
\* vocabulary and has tf*idf > 0; every index of the vector belongs to such
\* a term, so neither a term met in every corpus document nor a term
\* outside the vocabulary is in it, and a text with terms outside the
\* vocabulary is encoded like any other; "Lakers won" against
\* ["Lakers won", "Lakers lost"] gives indices <<1>> and the value 0.5*ln(2).
C14_EmitsPositiveVocabularyTerms ==
  Encoded =>
    /\ \A t \in DOMAIN vocabulary \cup TokenSet(encText) :
         Emitted(t) <=> (t \in TokenSet(encText) /\ t \in DOMAIN vocabulary /\ WeightPositive(t))
    /\ \A k \in 1..Len(sparseVector.indices) :
         \E t \in DOMAIN vocabulary \cap TokenSet(encText) :
           sparseVector.indices[k] = vocabulary[t]
    /\ \A t \in DOMAIN vocabulary :
         Cardinality(DocsWith(t, Len(documents))) = Len(documents) => ~Emitted(t)
    /\ documents = <<LakersWon, LakersLost>> /\ encText = LakersWon =>
         sparseVector = [indices |-> <<1>>, values |-> <<HalfLn2>>]

C14_Witness ==
  /\ Encoded
  /\ documents = <<LakersWon, LakersLost>>
  /\ encText = LakersWon
  /\ <<"l", "a", "k", "e", "r", "s">> \in DOMAIN vocabulary
  /\ ~Emitted(<<"l", "a", "k", "e", "r", "s">>)
  /\ sparseVector.indices = <<1>>

(***************************************************************************)
(* C15 (indices and values of a sparse vector are parallel)                *)
(***************************************************************************)
\* tf(t) * idf(t) for the text of the last encoding
WeightOf(t) ==
  [count |-> CountOf(tokenize(encText), t), total |-> Len(tokenize(encText)),
   num |-> idf[t].num, den |-> idf[t].den]

\* C15: the vector generateSparseVector returns, for a record's text as for
\* the query, has as many values as indices, and the value at each position
\* is tf*idf of the term whose vocabulary index stands at that position.
C15_ParallelIndicesValues ==
  Encoded =>
    /\ Len(sparseVector.indices) = Len(sparseVector.values)
    /\ \A k \in 1..Len(sparseVector.indices) :
         \E t \in DOMAIN vocabulary :
           /\ vocabulary[t] = sparseVector.indices[k]
           /\ t \in DOMAIN idf
           /\ sparseVector.values[k] = WeightOf(t)

C15_Witness ==
  /\ Encoded
  /\ Len(documents) = 2
  /\ Len(sparseVector.indices) = 2
  /\ Len(sparseVector.values) = 2
  /\ sparseVector.values[1] # sparseVector.values[2]

(***************************************************************************)
(* C16 (indices of a sparse vector are distinct)                           *)
(***************************************************************************)
\* C16: the vector of a text encoded against the vocabulary and IDF table of
\* the corpus never holds the same index at two positions.
C16_DistinctIndices ==
  Encoded =>
    \A j \in 1..Len(sparseVector.indices) : \A k \in 1..Len(sparseVector.indices) :
      j # k => sparseVector.indices[j] # sparseVector.indices[k]

C16_Witness ==
  /\ Encoded
  /\ Len(sparseVector.indices) = 2
  /\ \E t \in TokenSet(encText) : CountOf(tokenize(encText), t) = 2 /\ Emitted(t)

(***************************************************************************)
(* C17 (empty corpus)                                                      *)
(***************************************************************************)
\* C17: for a corpus of no documents the build ends with an empty vocabulary
\* and an empty IDF table, and every text encoded against them gives the
\* vector with no index and no value.
C17_EmptyCorpus ==
  Len(documents) = 0 =>
    /\ vpc \in {"scan", "done", "encoded"}
    /\ vocabulary = <<>>
    /\ idf = <<>>
    /\ Encoded => sparseVector.indices = <<>> /\ sparseVector.values = <<>>

C17_Witness ==
  /\ Len(documents) = 0
  /\ Encoded
  /\ encText = OnAb
  /\ sparseVector.indices = <<>>


(***************************************************************************)
(* C12 (record ids are a function of the source data)                      *)
(***************************************************************************)
\* C12: a second run over the same files returns records with the same ids,
\* position by position, as the first run, and after the second upsert the
\* index holds exactly the ids it held after the first.
C12_DeterministicIds ==
  /\ run = 2 /\ lpc \in {"returned", "upserted"} => Ids(loaded) = Ids(prevLoaded)
  /\ run = 2 /\ lpc = "upserted" => indexIds = firstIndexIds

(***************************************************************************)
(* C20 (records lacking a required field)                                  *)
(***************************************************************************)
WellFormedUpcoming(game) == game.homeTeam /\ game.visitorTeam

WellFormedInjury(injury) == injury.playerName /\ injury.date # 0

CountWhere(seq, Test(_)) == Cardinality({k \in 1..Len(seq) : Test(seq[k])})

\* records the well-formed source records stand for
WellFormedCount ==
  Len(Flatten([k \in 1..Len(sampledGames(source.games)) |->
                 GameRecords(source.year, sampledGames(source.games)[k])]))
  + CountWhere(source.upcoming, WellFormedUpcoming)
  + CountWhere(source.injuries, WellFormedInjury)

\* C20: loading never ends with an exception, whatever fields the source
\* records lack, and the records returned are as many as the well-formed
\* source records (an injury without playerName or date adds none).
C20_MalformedSkipped ==
  /\ lpc # "failed"
  /\ lpc \in {"returned", "upserted"} => Len(loaded) = WellFormedCount


(***************************************************************************)
(* C21 (texts without tokens)                                              *)
(***************************************************************************)
\* the text has no run of two word characters, so it has no token longer
\* than one character
NoLongWord(text) ==
  \A k \in 1..(Len(text) - 1) :
    ~(IsWord(ToLower(text[k])) /\ IsWord(ToLower(text[k + 1])))

\* C21: a text with no token (the empty text, or a text whose words all have
\* one character) is encoded as the empty vector against every vocabulary
\* and IDF table, and no value of any vector is a quotient by zero tokens or
\* the logarithm of a quotient by zero documents.
C21_NoTokensEmptyVector ==
  Encoded =>
    /\ NoLongWord(encText) => tokenize(encText) = <<>> /\ sparseVector = EmptyVector
    /\ \A k \in 1..Len(sparseVector.values) :
         /\ sparseVector.values[k].total > 0
         /\ sparseVector.values[k].den > 0
         /\ sparseVector.values[k].num > 0

C21_Witness ==
  /\ Encoded
  /\ encText # <<>>
  /\ NoLongWord(encText)
  /\ \E k \in 1..Len(encText) : IsWord(ToLower(encText[k]))
  /\ DOMAIN vocabulary # {}
  /\ sparseVector = EmptyVector

(***************************************************************************)
(* C22 (vocabulary and IDF table are frozen after the build)               *)
(***************************************************************************)
\* C22: from the return of buildVocabularyAndIDF on, no step changes the
\* vocabulary or the IDF table; every call of generateSparseVector, for a
\* document or for a query with terms the vocabulary lacks, leaves both as
\* they were.
C22_TablesFrozen ==
  [][BuildDone => vocabulary' = vocabulary /\ idf' = idf]_vars

C22_Witness ==
  /\ Encoded
  /\ encText = OnAb
  /\ DOMAIN vocabulary # {}
  /\ \E t \in TokenSet(encText) : t \notin DOMAIN vocabulary
  /\ \E t \in TokenSet(encText) : t \in DOMAIN vocabulary


(***************************************************************************)
(* C25 (vocabulary indexes are distinct)                                   *)
(***************************************************************************)
\* C25: at every point of the build and after it, two different terms of the
\* vocabulary have different indexes, and every index is below the counter;
\* this holds too when the first term of the first document is met again
\* in a later document.
C25_DistinctVocabularyIndexes ==
  /\ \A t \in DOMAIN vocabulary : \A u \in DOMAIN vocabulary :
       t # u => vocabulary[t] # vocabulary[u]
  /\ \A t \in DOMAIN vocabulary : vocabulary[t] >= 0 /\ vocabulary[t] < vocabIndex

C25_Witness ==
  /\ vpc = "done"
  /\ documents = <<LakersWon, LakersLost>>
  /\ Cardinality(DOMAIN vocabulary) = 3
  /\ Head(tokenize(documents[1])) = Head(tokenize(documents[2]))
  /\ vocabulary[Head(tokenize(documents[1]))] # 0


(***************************************************************************)
(* C23 (ids of the records of one run are distinct)                        *)
(***************************************************************************)
\* two records of the run, at different positions, with the same id
SameId(j, k) == j # k /\ loaded[j].id = loaded[k].id

\* C23: at every point of a run the records loaded so far have pairwise
\* different ids; in particular the team-game records of the two teams of
\* one game never share an id.
C23_DistinctIds ==
  \A j \in 1..Len(loaded) : \A k \in 1..Len(loaded) : ~SameId(j, k)

\* the part of C23 about the two team rows of one game
C23_TeamRowsDistinct ==
  \A j \in 1..Len(loaded) : \A k \in 1..Len(loaded) :
    /\ loaded[j].category = "team-game" /\ loaded[k].category = "team-game"
    /\ loaded[j].team # loaded[k].team
    => loaded[j].id # loaded[k].id


(***************************************************************************)
(* C24 (the sparse success report)                                         *)
(***************************************************************************)
\* every batch of the sparse records was accepted, at once or on its retry
SparseAllAccepted ==
  \A j \in 0..(Len(sparseVectors) - 1) :
    j % SPARSE_BATCH_SIZE = 0 => BatchState("sparse", j) = "Done"

\* C24: the message that all sparse records were upserted, and the completion
\* message after it, are logged only in runs whose sparse batches were all
\* accepted; a run that left the sparse loop on an error logs neither.
C24_SparseSuccessOnlyWhenAccepted ==
  \A k \in LogIdx :
    log[k] = ReportEv("sparse") \/ log[k] = ReportEv("all") => SparseAllAccepted


(***************************************************************************)
(* C26 (the dense phase comes before the sparse phase)                     *)
(***************************************************************************)
\* every batch of the records was accepted by the dense index
DenseAllAccepted ==
  \A j \in 0..(Len(records) - 1) :
    j % BATCH_SIZE = 0 => BatchState("dense", j) = "Done"

DenseFailed == failedAt \in {"dense_upsert", "dense_retry"}

\* C26: a sparse upsert is issued only after the dense loop has ended with
\* every dense batch accepted, and in a run whose dense phase ended with a
\* propagated error main has stopped and the history holds no sparse
\* upsert, no statistics call and no query.
C26_DenseBeforeSparse ==
  /\ \A k \in LogIdx :
       IsSubmit(log[k]) /\ log[k].target = "sparse" =>
         /\ DenseAllAccepted
         /\ \E j \in 1..(k - 1) : log[j] = ReportEv("dense")
         /\ \A j \in LogIdx : IsSubmit(log[j]) /\ log[j].target = "dense" => j < k
  /\ DenseFailed =>
       /\ pc = "failed"
       /\ \A k \in LogIdx :
            /\ log[k].target # "sparse"
            /\ log[k].kind \notin {"stats", "search"}

C26_Witness ==
  /\ pc = "failed"
  /\ failedAt = "dense_retry"
  /\ BatchState("dense", 0) = "Done"
  /\ BatchState("dense", 96) = "Aborted"
  /\ Len(records) = 250


(***************************************************************************)
(* C28 (main terminates, with a bounded number of upsert calls)            *)
(***************************************************************************)
Terminated == pc \in {"done", "failed"}

UpsertCallsBounded ==
  /\ AllSubmitCount("dense") <= 2 * CeilDiv(Len(records), BATCH_SIZE)
  /\ AllSubmitCount("sparse") <= 2 * CeilDiv(Len(records), SPARSE_BATCH_SIZE)

\* C28: when every call and timer main awaits returns, main ends (normally
\* or with a propagated error) whatever the index service answers, and at
\* every point of the run it has issued at most 2*ceil(n/96) dense and at
\* most 2*ceil(n/100) sparse upsert calls for its n records.
C28_TerminatesBounded == <>Terminated /\ []UpsertCallsBounded

C28_Witness ==
  /\ pc = "done"
  /\ Len(records) = 250
  /\ AllSubmitCount("dense") = 6
  /\ AllSubmitCount("sparse") = 6


(***************************************************************************)
(* C27 (fetchJson: bounded retries with doubling waits)                    *)
(***************************************************************************)
FLogIdx == 1..Len(flog)

Requests == {k \in FLogIdx : flog[k].kind = "request"}

IsRetryable(status) == status >= 500 \/ status = 429

====
